---- MODULE Spec2Model ----
(***************************************************************************)
(* Progress synchronisation core of the wordmate backend:                  *)
(*   ProgressService.sync_user_progress   (merge engine + stats update)    *)
(*   ProgressService.import_trial_progress (trial importer)                *)
(*   ProgressService.get_words_for_review  (review selector)               *)
(*   register_user                         (account creation + import)     *)
(*   login_user, authenticate_user         (login by credentials)          *)
(*   create_user_token, verify_token       (JWT round trip, /auth/me)      *)
(* over the tables users, user_words, sessions and events.                 *)
(*                                                                         *)
(* Numbers with a fractional part (mastery_level, ease_factor) are kept in *)
(* hundredths: 255 is 2.55.  A client float is named by its shortest       *)
(* decimal representation (what str() prints); a Decimal is exact.         *)
(* Dates are day numbers 1..MaxDay, NoDate is None.  Token times are in    *)
(* hours.                                                                  *)
(***************************************************************************)
EXTENDS Integers, Sequences, FiniteSets, TLC

VARIABLES
    users,       \* table users: user id -> account row (stats embedded)
    user_words,  \* table user_words: <<user_id, word_id>> -> progress row
    sessions,    \* table sessions: sequence of rows in insertion order
    events,      \* table events: sequence of rows in insertion order
    today,       \* the server's current date, date.today()
    last,        \* the last call: its inputs and what it returned or raised
    prev,        \* the committed tables as they were before the last call
    clock,       \* hours of UTC time since the server started
    utc_offset,  \* the server's local time minus UTC, in hours
    tokens       \* the JWTs the server has issued

vars == <<users, user_words, sessions, events, today, last, prev,
          clock, utc_offset, tokens>>

----------------------------------------------------------------------------
(* Bounds of the model *)

MaxBatch == 2
MaxStreak == 2
MaxDay == 2
MaxLimit == 2
MaxSessions == 6

(* Optional[date] = None *)
NoDate == 0

UserIds == {"u1"}

----------------------------------------------------------------------------
(* Python values *)

EmptyDict == [k \in {} |-> 0]

(* dict.get(key, default) *)
DictGet(d, k, default) == IF k \in DOMAIN d THEN d[k] ELSE default

(* bool(d) of a dict or None *)
Truthy(d) == DOMAIN d # {}

Max(a, b) == IF a >= b THEN a ELSE b

(* A binary float equals the decimal its str() prints only when that       *)
(* decimal is a dyadic rational: with two decimals, a multiple of 0.25.    *)
FloatIsExact(f) == f % 25 = 0

(* Decimal(str(x)) of a float x: the exact decimal that str(x) prints. *)
DecimalStr(f) == f

(* float(d) of a Decimal d: the float whose str() prints d. *)
FloatOf(d) == d

(* Decimal.__ne__(float): compares the exact values. *)
DecimalNeFloat(d, f) == ~(d = f /\ FloatIsExact(f))

(* A DECIMAL(3, 1) column keeps one decimal; MySQL rounds half up. *)
DecimalColumn(d) == ((d + 5) \div 10) * 10

(* The row as the DECIMAL columns of user_words keep it. *)
StoreRow(r) ==
    [r EXCEPT !.mastery_level = DecimalColumn(@),
              !.ease_factor = DecimalColumn(@)]

(* f with key k set to v *)
SetKey(f, k, v) == [x \in DOMAIN f \cup {k} |-> IF x = k THEN v ELSE f[x]]

----------------------------------------------------------------------------
(* sync_user_progress: one entry of the batch *)

(* existing_word.mastery_level != word_data.mastery_level: a Decimal on    *)
(* the left, the client's value on the right (a non-number is unequal).    *)
MasteryDiffers(server_mastery, e) ==
    e.malformed = "mastery_level" \/ DecimalNeFloat(server_mastery, e.mastery_level)

(* The conflict test of an existing record. *)
HasConflict(cur, e) ==
    MasteryDiffers(cur.mastery_level, e) \/ cur.repetitions # e.repetitions

SyncConflict(cur, e) ==
    [word_id |-> e.word_id,
     server_mastery |-> FloatOf(cur.mastery_level),
     client_mastery |-> e.mastery_level,
     resolution |-> "client_wins"]

(* The line of the field-by-field overwrite at which the entry raises:     *)
(* Decimal(str(v)) raises InvalidOperation for a value that is no number.  *)
RaiseLine(e) ==
    CASE e.malformed = "mastery_level" -> 246
      [] e.malformed = "ease_factor" -> 248
      [] OTHER -> 254

(* Mutant of OverwriteUpTo: seen_count and correct_count keep the server's *)
(* values.                                                                 *)
OverwriteNoCounters(cur, e, line) ==
    [mastery_level |-> IF 246 < line THEN DecimalStr(e.mastery_level) ELSE cur.mastery_level,
     repetitions   |-> IF 247 < line THEN e.repetitions ELSE cur.repetitions,
     ease_factor   |-> IF 248 < line THEN DecimalStr(e.ease_factor) ELSE cur.ease_factor,
     last_review   |-> IF 249 < line THEN e.last_review ELSE cur.last_review,
     next_review   |-> IF 250 < line THEN e.next_review ELSE cur.next_review,
     seen_count    |-> cur.seen_count,
     correct_count |-> cur.correct_count]

(* The assignments of lines 246..252 that ran before `line` raised         *)
(* (line 254: none raised, all ran).                                       *)
OverwriteUpTo(cur, e, line) ==
    [mastery_level |-> IF 246 < line THEN DecimalStr(e.mastery_level) ELSE cur.mastery_level,
     repetitions   |-> IF 247 < line THEN e.repetitions ELSE cur.repetitions,
     ease_factor   |-> IF 248 < line THEN DecimalStr(e.ease_factor) ELSE cur.ease_factor,
     last_review   |-> IF 249 < line THEN e.last_review ELSE cur.last_review,
     next_review   |-> IF 250 < line THEN e.next_review ELSE cur.next_review,
     seen_count    |-> IF 251 < line THEN e.seen_count ELSE cur.seen_count,
     correct_count |-> IF 252 < line THEN e.correct_count ELSE cur.correct_count]

(* UserWord(...) built from a client entry. *)
NewWord(e) ==
    [mastery_level |-> DecimalStr(e.mastery_level),
     repetitions   |-> e.repetitions,
     ease_factor   |-> DecimalStr(e.ease_factor),
     last_review   |-> e.last_review,
     next_review   |-> e.next_review,
     seen_count    |-> e.seen_count,
     correct_count |-> e.correct_count]

(* The unit of work of one call: `dirty` holds the loaded rows it changed  *)
(* in memory, `pending` the new objects given to db.add, in order.         *)
NewSession ==
    [dirty |-> EmptyDict, pending |-> <<>>, conflicts |-> <<>>,
     updated_words |-> 0, trace |-> <<>>]

(* Mutant of Lookup: the user_id filter is missing. *)
LookupAnyUser(dbw, st, key) ==
    IF \A k \in DOMAIN dbw : k[2] # key[2] THEN <<>>
    ELSE IF key \in DOMAIN st.dirty THEN <<st.dirty[key]>>
    ELSE <<dbw[CHOOSE k \in DOMAIN dbw : k[2] = key[2]]>>

(* db.query(UserWord).filter(user_id, word_id).first() with autoflush off: *)
(* the committed row as this session holds it, pending objects unseen.     *)
(* <<>> is None.                                                           *)
Lookup(dbw, st, key) ==
    IF key \notin DOMAIN dbw THEN <<>>
    ELSE IF key \in DOMAIN st.dirty THEN <<st.dirty[key]>>
    ELSE <<dbw[key]>>

(* Mutant of SkipEntry: the skipped entry is counted. *)
SkipEntryCounted(st, found, conflict) ==
    [st EXCEPT !.updated_words = @ + 1,
               !.trace = Append(@, [kind |-> "skipped", server |-> found,
                                    conflict |-> conflict])]

(* except Exception: print, continue. *)
SkipEntry(st, found, conflict) ==
    [st EXCEPT !.trace = Append(@, [kind |-> "skipped", server |-> found,
                                    conflict |-> conflict])]

(* updated_words += 1 at the end of the try block. *)
CountEntry(st, kind, found, conflict) ==
    [st EXCEPT !.updated_words = @ + 1,
               !.trace = Append(@, [kind |-> kind, server |-> found,
                                    conflict |-> conflict])]

(* The body of the for loop for entry e of user u. *)
ProcessEntry(dbw, st, u, e) ==
    LET key == <<u, e.word_id>>
        found == Lookup(dbw, st, key)
    IN  IF found # <<>>
        THEN LET cur == found[1]
                 conflict == HasConflict(cur, e)
                 st1 == [st EXCEPT
                           !.conflicts = IF conflict
                                         THEN Append(@, SyncConflict(cur, e))
                                         ELSE @,
                           !.dirty = SetKey(@, key, OverwriteUpTo(cur, e, RaiseLine(e)))]
             IN  IF e.malformed # ""
                 THEN SkipEntry(st1, found, conflict)
                 ELSE CountEntry(st1, "updated", found, conflict)
        ELSE IF e.malformed # ""
             THEN SkipEntry(st, found, FALSE)
             ELSE CountEntry([st EXCEPT !.pending =
                                 Append(@, [key |-> key, row |-> NewWord(e)])],
                             "created", found, FALSE)

RECURSIVE ProcessWords(_, _, _, _)
(* for word_data in sync_data.words *)
ProcessWords(dbw, st, u, words) ==
    IF words = <<>> THEN st
    ELSE ProcessWords(dbw, ProcessEntry(dbw, st, u, Head(words)), u, Tail(words))

----------------------------------------------------------------------------
(* sync_user_progress: stats, commit, result *)

(* Mutant of SyncMaxStreak: the incoming value overwrites. *)
SyncMaxStreakOverwrite(existing, stats) == DictGet(stats, "max_streak", existing)

(* max(user.max_streak, sync_data.stats.get("max_streak", 0)) *)
SyncMaxStreak(existing, stats) == Max(existing, DictGet(stats, "max_streak", 0))

(* Mutant of SyncOverwrite: a key the update omits resets the field. *)
SyncOverwriteOrZero(existing, stats, k) == DictGet(stats, k, 0)

(* sync_data.stats.get(key, user.<key>) *)
SyncOverwrite(existing, stats, k) == DictGet(stats, k, existing)

(* Mutant of SyncLastActive: the client's date is trusted when given. *)
SyncLastActiveFromClient(stats, day) == DictGet(stats, "last_active_date", day)

(* user.last_active_date = date.today() *)
SyncLastActive(stats, day) == day

(* Mutant of SyncStats: the stats block runs for an empty map too. *)
SyncStatsAlways(dbu, u, stats, day) ==
    IF u \in DOMAIN dbu
    THEN [dbu EXCEPT ![u] =
            [@ EXCEPT
               !.total_words_learned = SyncOverwrite(@, stats, "total_words_learned"),
               !.current_streak = SyncOverwrite(@, stats, "current_streak"),
               !.max_streak = SyncMaxStreak(@, stats),
               !.last_active_date = SyncLastActive(stats, day)]]
    ELSE dbu

(* The stats block: only for an account that exists and a non-empty map. *)
SyncStats(dbu, u, stats, day) ==
    IF u \in DOMAIN dbu /\ Truthy(stats)
    THEN [dbu EXCEPT ![u] =
            [@ EXCEPT
               !.total_words_learned = SyncOverwrite(@, stats, "total_words_learned"),
               !.current_streak = SyncOverwrite(@, stats, "current_streak"),
               !.max_streak = SyncMaxStreak(@, stats),
               !.last_active_date = SyncLastActive(stats, day)]]
    ELSE dbu

PendingKeys(pending) == {pending[i].key : i \in DOMAIN pending}

(* Mutant of FlushRaises: user_words has no primary key. *)
FlushRaisesForeignKeyOnly(dbu, dbw, pending) ==
    \E i \in DOMAIN pending : pending[i].key[1] \notin DOMAIN dbu

(* The flush of db.commit() raises IntegrityError: two new objects with    *)
(* one primary key, a primary key that is already a row, or a user_id      *)
(* that is no row of users (the foreign key).                              *)
FlushRaises(dbu, dbw, pending) ==
    \/ \E i, j \in DOMAIN pending : i < j /\ pending[i].key = pending[j].key
    \/ \E i \in DOMAIN pending : pending[i].key \in DOMAIN dbw
    \/ \E i \in DOMAIN pending : pending[i].key[1] \notin DOMAIN dbu

(* The rows of user_words after the flush: UPDATE of the changed rows,     *)
(* INSERT of the new ones.                                                 *)
FlushWords(dbw, dirty, pending) ==
    [k \in DOMAIN dbw \cup PendingKeys(pending) |->
        IF k \in DOMAIN dbw
        THEN IF k \in DOMAIN dirty THEN StoreRow(dirty[k]) ELSE dbw[k]
        ELSE LET i == CHOOSE i \in DOMAIN pending : pending[i].key = k
             IN  StoreRow(pending[i].row)]

(* Mutant of Rollback: what had been written stays. *)
RollbackKeepsWrites(committed, attempted) == attempted

(* db.rollback(): the tables are those of the last commit. *)
Rollback(committed, attempted) == committed

(* sync_user_progress(db, user_id, sync_data).  commit_fails: the database *)
(* refuses the commit (connectivity).  Returns the tables and the result;  *)
(* ok = FALSE is the raised "Failed to sync progress".                     *)
SyncUserProgress(dbu, dbw, u, words, stats, day, commit_fails) ==
    LET st == ProcessWords(dbw, NewSession, u, words)
        newu == SyncStats(dbu, u, stats, day)
        neww == FlushWords(dbw, st.dirty, st.pending)
        raised == commit_fails \/ FlushRaises(dbu, dbw, st.pending)
    IN  IF raised
        THEN [ok |-> FALSE,
              users |-> Rollback(dbu, newu),
              user_words |-> Rollback(dbw, neww),
              updated_words |-> 0, conflicts |-> <<>>, trace |-> st.trace]
        ELSE [ok |-> TRUE, users |-> newu, user_words |-> neww,
              updated_words |-> st.updated_words,
              conflicts |-> st.conflicts, trace |-> st.trace]

----------------------------------------------------------------------------
(* sync_user_progress run by two requests at once: each request has its    *)
(* own session; its queries read one snapshot (InnoDB repeatable read),    *)
(* its writes reach the tables in the flush of db.commit().                *)

(* The UPDATE of a loaded row sets the columns whose value the session     *)
(* changed; the others keep what the table holds now.                      *)
WriteChanged(now_row, loaded_row, mem_row) ==
    [f \in DOMAIN now_row |->
        IF mem_row[f] # loaded_row[f] THEN mem_row[f] ELSE now_row[f]]

(* Lines 223..283: the loop and the stats block, over the snapshot the     *)
(* request reads.                                                          *)
SyncRead(dbu, dbw, u, words, stats, day) ==
    [user |-> u, words |-> words, stats |-> stats,
     read_users |-> dbu, read_words |-> dbw,
     st |-> ProcessWords(dbw, NewSession, u, words),
     mem_users |-> SyncStats(dbu, u, stats, day)]

(* Line 285 and the except branch, against the tables as they are when the *)
(* request commits: INSERT of a key another request has committed since    *)
(* raises IntegrityError.                                                  *)
SyncCommit(dbu, dbw, call) ==
    LET st == call.st
        neww == [k \in DOMAIN dbw \cup PendingKeys(st.pending) |->
                    IF k \in DOMAIN dbw
                    THEN IF k \in DOMAIN st.dirty
                         THEN StoreRow(WriteChanged(dbw[k], call.read_words[k], st.dirty[k]))
                         ELSE dbw[k]
                    ELSE LET i == CHOOSE i \in DOMAIN st.pending : st.pending[i].key = k
                         IN  StoreRow(st.pending[i].row)]
        newu == [x \in DOMAIN dbu |->
                    IF x \in DOMAIN call.read_users
                    THEN WriteChanged(dbu[x], call.read_users[x], call.mem_users[x])
                    ELSE dbu[x]]
    IN  IF FlushRaises(dbu, dbw, st.pending)
        THEN [ok |-> FALSE, users |-> Rollback(dbu, newu),
              user_words |-> Rollback(dbw, neww)]
        ELSE [ok |-> TRUE, users |-> newu, user_words |-> neww]

----------------------------------------------------------------------------
(* import_trial_progress *)

(* len(sessions_data) > 5, sessions_data[-5:] *)
SessionCap == 5

(* A date string that datetime.fromisoformat rejects. *)
BadDate == -1

(* _parse_date: None for a falsy or unparseable value. *)
ParseDate(x) == IF x = NoDate \/ x = BadDate THEN NoDate ELSE x

(* word_data.get(key, default) of an untyped trial entry: `missing` holds  *)
(* the keys the entry does not have.                                       *)
TrialGet(wd, k, default) == IF k \in wd.missing THEN default ELSE wd[k]

(* Mutant of TrialWord: the entry's mastery_level is not read. *)
TrialWordNoMastery(wd) ==
    [mastery_level |-> DecimalStr(0),
     repetitions   |-> TrialGet(wd, "repetitions", 0),
     ease_factor   |-> DecimalStr(TrialGet(wd, "ease_factor", 250)),
     last_review   |-> ParseDate(TrialGet(wd, "last_review", NoDate)),
     next_review   |-> ParseDate(TrialGet(wd, "next_review", NoDate)),
     seen_count    |-> TrialGet(wd, "seen_count", 0),
     correct_count |-> TrialGet(wd, "correct_count", 0)]

(* UserWord(...) built from an untyped trial entry, with the defaults. *)
TrialWord(wd) ==
    [mastery_level |-> DecimalStr(TrialGet(wd, "mastery_level", 0)),
     repetitions   |-> TrialGet(wd, "repetitions", 0),
     ease_factor   |-> DecimalStr(TrialGet(wd, "ease_factor", 250)),
     last_review   |-> ParseDate(TrialGet(wd, "last_review", NoDate)),
     next_review   |-> ParseDate(TrialGet(wd, "next_review", NoDate)),
     seen_count    |-> TrialGet(wd, "seen_count", 0),
     correct_count |-> TrialGet(wd, "correct_count", 0)]

(* An element of the words list that is no dict: word_data.get raises     *)
(* AttributeError inside the try, and again in the except handler's print, *)
(* so the exception leaves _import_word_progress.                          *)
NotADict == "entry"

(* _import_word_progress raises. *)
ImportRaises(words_data) ==
    \E i \in DOMAIN words_data : words_data[i].malformed = NotADict

RECURSIVE ImportWordProgress(_, _)
(* _import_word_progress: the new objects given to db.add_all; an entry    *)
(* whose construction raises is skipped.                                   *)
ImportWordProgress(user_id, words_data) ==
    IF words_data = <<>> THEN <<>>
    ELSE LET wd == Head(words_data)
             rest == ImportWordProgress(user_id, Tail(words_data))
         IN  IF wd.malformed # "" /\ wd.malformed \notin wd.missing
             THEN rest
             ELSE <<[key |-> <<user_id, TrialGet(wd, "word_id", "")>>,
                     row |-> TrialWord(wd)]>> \o rest

(* Mutant of RecentSessions: the first five are kept. *)
RecentSessionsFirst(sessions_data) ==
    IF Len(sessions_data) > SessionCap
    THEN SubSeq(sessions_data, 1, SessionCap)
    ELSE sessions_data

(* sessions_data[-5:] if len(sessions_data) > 5 else sessions_data *)
RecentSessions(sessions_data) ==
    IF Len(sessions_data) > SessionCap
    THEN SubSeq(sessions_data, Len(sessions_data) - SessionCap + 1, Len(sessions_data))
    ELSE sessions_data

RECURSIVE SessionObjects(_, _)
(* The session objects built from the summaries, malformed ones skipped. *)
SessionObjects(user_id, summaries) ==
    IF summaries = <<>> THEN <<>>
    ELSE LET sd == Head(summaries)
             rest == SessionObjects(user_id, Tail(summaries))
         IN  IF sd.malformed THEN rest
             ELSE <<[user_id |-> user_id, practice_type |-> sd.practice_type,
                     words_count |-> sd.words_count,
                     started_at |-> ParseDate(sd.started_at)]>> \o rest

(* _import_session_summaries *)
ImportSessionSummaries(user_id, sessions_data) ==
    SessionObjects(user_id, RecentSessions(sessions_data))

(* _update_user_stats: direct overwrite with defaults 0; last_active_date  *)
(* is parsed from the payload when it gives one.                           *)
UpdateUserStats(dbu, user_id, stats_data) ==
    IF user_id \in DOMAIN dbu
    THEN [dbu EXCEPT ![user_id] =
            [@ EXCEPT
               !.total_words_learned = DictGet(stats_data, "total_words_learned", 0),
               !.current_streak = DictGet(stats_data, "current_streak", 0),
               !.max_streak = DictGet(stats_data, "max_streak", 0),
               !.last_active_date =
                   IF DictGet(stats_data, "last_active_date", NoDate) # NoDate
                   THEN ParseDate(stats_data["last_active_date"])
                   ELSE @]]
    ELSE dbu

----------------------------------------------------------------------------
(* register_user *)

(* UserCreate: the body of POST /api/auth/register.  An absent password   *)
(* is "", an absent device_id is <<>>.                                     *)
UserCreate(email, username, password, device_id, trial_data) ==
    [email |-> email, username |-> username, password |-> password,
     device_id |-> device_id, trial_data |-> trial_data]

(* JWT_ACCESS_TOKEN_EXPIRE_MINUTES = 60 * 24 * 7, in hours. *)
TokenLifetime == 168

NoHash == <<>>
NoDevice == <<>>
NoUser == ""
NoExp == -1
NoToken == [sub |-> NoUser, email |-> "", username |-> "", exp |-> NoExp,
            sig |-> "none"]

(* hash_password: a bcrypt hash is made from the password (and a salt). *)
HashPassword(password) == <<"bcrypt", password>>

(* verify_password: true exactly for the password the hash was made from. *)
VerifyPassword(password, hash) == hash = HashPassword(password)

(* generate_device_id(): a fresh identifier, here named after the account. *)
GenerateDeviceId(new_id) == <<"device", new_id>>

(* create_user_token + create_access_token: the claims sub, email and      *)
(* username, exp = utcnow() + the configured lifetime, signed with the     *)
(* server's key.                                                           *)
CreateUserToken(dbu, user_id, now) ==
    [sub |-> user_id, email |-> dbu[user_id].email,
     username |-> dbu[user_id].username, exp |-> now + TokenLifetime,
     sig |-> "server"]

(* jwt.decode of python-jose: JWTError for a wrong signature and for an    *)
(* exp claim that lies before the current UTC time.                        *)
JwtDecodeRaises(token, now) ==
    \/ token.sig # "server"
    \/ token.exp # NoExp /\ token.exp < now

(* Mutant of UtcNowTimestamp: the timestamp of the current UTC time. *)
UtcNowTimestampAware(now, offset) == now

(* datetime.utcnow().timestamp(): utcnow() is a naive datetime holding UTC *)
(* wall-clock time, and timestamp() reads a naive datetime as local time,  *)
(* so the result is the POSIX time minus the server's UTC offset.          *)
UtcNowTimestamp(now, offset) == now - offset

(* verify_token: TRUE when the payload is returned, FALSE for None. *)
VerifyToken(token, now, offset) ==
    IF JwtDecodeRaises(token, now) THEN FALSE
    ELSE IF token.exp = NoExp THEN FALSE
    ELSE IF UtcNowTimestamp(now, offset) > token.exp THEN FALSE
    ELSE TRUE

(* GET /api/auth/me through get_current_user_id and                        *)
(* get_current_user_from_token: 401 when verify_token gives None or the    *)
(* payload has no sub, 404 when the account is gone, else the account.     *)
GetCurrentUserInfo(dbu, token, now, offset) ==
    LET refused(status, detail) ==
            [ok |-> FALSE, status |-> status, detail |-> detail,
             id |-> NoUser, email |-> "", username |-> ""]
    IN  IF ~VerifyToken(token, now, offset) \/ token.sub = NoUser
        THEN refused(401, "Could not validate credentials")
        ELSE IF token.sub \notin DOMAIN dbu
        THEN refused(404, "User not found")
        ELSE [ok |-> TRUE, status |-> 200, detail |-> "", id |-> token.sub,
              email |-> dbu[token.sub].email,
              username |-> dbu[token.sub].username]

(* Mutant of AuthCheck: the password branch is gone. *)
AuthCheckNoPassword(dbu, uid, login) ==
    IF login.device_id # NoDevice /\ dbu[uid].device_id = login.device_id
    THEN uid
    ELSE IF login.email # "" \/ login.username # "" THEN uid
    ELSE NoUser

(* authenticate_user, lines 125-140: what is returned for the account the  *)
(* lookup found.                                                           *)
AuthCheck(dbu, uid, login) ==
    IF login.device_id # NoDevice /\ dbu[uid].device_id = login.device_id
    THEN uid
    ELSE IF login.password # "" /\ dbu[uid].password_hash # NoHash
    THEN IF VerifyPassword(login.password, dbu[uid].password_hash)
         THEN uid ELSE NoUser
    ELSE IF dbu[uid].password_hash = NoHash
            /\ (login.email # "" \/ login.username # "")
    THEN uid
    ELSE NoUser

(* authenticate_user, lines 113-120: the rows of which the query by email, *)
(* else by username, else by device_id, returns the first.                 *)
FindUser(dbu, login) ==
    IF login.email # ""
    THEN {u \in DOMAIN dbu : dbu[u].email = login.email}
    ELSE IF login.username # ""
    THEN {u \in DOMAIN dbu : dbu[u].username = login.username}
    ELSE IF login.device_id # NoDevice
    THEN {u \in DOMAIN dbu : dbu[u].device_id = login.device_id}
    ELSE {}

(* authenticate_user: the lookup by email, else by username, else by       *)
(* device_id takes .first() of the matching rows; username and device_id   *)
(* are not unique, so any matching row may be the first.  The result is    *)
(* the set of values the call may return.                                  *)
AuthenticateUser(dbu, login) ==
    IF FindUser(dbu, login) = {} THEN {NoUser}
    ELSE {AuthCheck(dbu, u, login) : u \in FindUser(dbu, login)}

(* login_user with authenticate_user returning found: 401 "Invalid         *)
(* credentials" for None; else the login event is committed and a token    *)
(* is issued; a refused commit is rolled back and answered with 500.       *)
LoginUser(dbu, dbe, login, found, now, commit_fails) ==
    LET event == [user_id |-> found, event_type |-> "login",
                  from_trial |-> FALSE]
    IN  IF found = NoUser
        THEN [ok |-> FALSE, status |-> 401, detail |-> "Invalid credentials",
              events |-> dbe, token |-> NoToken, user |-> NoUser]
        ELSE IF commit_fails
        THEN [ok |-> FALSE, status |-> 500, detail |-> "Login failed",
              events |-> dbe, token |-> NoToken, user |-> NoUser]
        ELSE [ok |-> TRUE, status |-> 200, detail |-> "",
              events |-> Append(dbe, event),
              token |-> CreateUserToken(dbu, found, now), user |-> found]

(* Mutant of StrHTTPException: str() of an HTTPException is empty, as in   *)
(* releases of Starlette whose HTTPException does not define __str__.      *)
StrHTTPExceptionEmpty(status, detail) == <<>>

(* str(e) of an HTTPException: "<status_code>: <detail>". *)
StrHTTPException(status, detail) == <<status, detail>>

(* The row register_user adds at lines 53-63. *)
NewUser(user_data, new_id) ==
    [email |-> user_data.email,
     username |-> user_data.username,
     password_hash |-> IF user_data.password # ""
                       THEN HashPassword(user_data.password) ELSE NoHash,
     device_id |-> IF user_data.device_id # NoDevice
                   THEN user_data.device_id ELSE GenerateDeviceId(new_id),
     registered_from_trial |-> Truthy(user_data.trial_data),
     total_words_learned |-> 0,
     current_streak |-> 0,
     max_streak |-> 0,
     last_active_date |-> NoDate]

(* register_user(user_data) with generate_user_id() = new_id.  status is   *)
(* the HTTP status of the response: the HTTPException of the email check   *)
(* is raised inside the try and caught by `except Exception` (500); an     *)
(* IntegrityError of the flush at line 66 or of the commit gives 400; an   *)
(* exception of the trial import or a refused commit gives 500.  Every     *)
(* handler rolls back what the flush of line 66 and the import had written *)
(* (`written`); the new words, sessions and event were never flushed.      *)
(* detail is the text of the response, as the parts it is made of.         *)
RegisterUser(dbu, dbw, dbs, dbe, user_data, new_id, now, commit_fails) ==
    LET trial == user_data.trial_data
        failed(status, detail, written) ==
            [ok |-> FALSE, status |-> status, detail |-> detail,
             users |-> Rollback(dbu, written),
             user_words |-> dbw, sessions |-> dbs, events |-> dbe,
             token |-> NoToken]
        flushed == SetKey(dbu, new_id, NewUser(user_data, new_id))
        pending == IF Truthy(trial)
                   THEN ImportWordProgress(new_id, DictGet(trial, "words", <<>>))
                   ELSE <<>>
        news == IF Truthy(trial)
                THEN ImportSessionSummaries(new_id, DictGet(trial, "sessions", <<>>))
                ELSE <<>>
        newu == IF Truthy(trial) /\ Truthy(DictGet(trial, "stats", EmptyDict))
                THEN UpdateUserStats(flushed, new_id, trial["stats"])
                ELSE flushed
        event == [user_id |-> new_id, event_type |-> "registration",
                  from_trial |-> Truthy(trial)]
    IN  IF \E u \in DOMAIN dbu : dbu[u].email = user_data.email
        THEN failed(500, <<"Registration failed: ">>
                         \o StrHTTPException("400", "Email already registered"),
                    dbu)
        ELSE IF new_id \in DOMAIN dbu
        THEN failed(400, <<"Registration failed due to data constraint">>, dbu)
        ELSE IF Truthy(trial) /\ ImportRaises(DictGet(trial, "words", <<>>))
        THEN failed(500, <<"Registration failed: ", "error">>, flushed)
        ELSE IF FlushRaises(flushed, dbw, pending)
        THEN failed(400, <<"Registration failed due to data constraint">>, newu)
        ELSE IF commit_fails
        THEN failed(500, <<"Registration failed: ", "error">>, newu)
        ELSE [ok |-> TRUE, status |-> 200, detail |-> <<>>, users |-> newu,
              user_words |-> FlushWords(dbw, EmptyDict, pending),
              sessions |-> dbs \o news,
              events |-> Append(dbe, event),
              token |-> CreateUserToken(newu, new_id, now)]

----------------------------------------------------------------------------
(* get_words_for_review *)

(* The rows the two filters keep: the user's, mastery_level < 4.0, and     *)
(* next_review IS NULL or <= date.today().                                 *)
Eligible(dbw, user_id, day) ==
    {k \in DOMAIN dbw :
        /\ k[1] = user_id
        /\ dbw[k].mastery_level < 400
        /\ (dbw[k].next_review = NoDate \/ dbw[k].next_review <= day)}

(* last_review ASC in MySQL: NULL sorts before every date. *)
DateAsc(a, b) == a = NoDate \/ (b # NoDate /\ a <= b)

(* ORDER BY mastery_level ASC, last_review ASC: row a may stand before b. *)
OrderedBefore(a, b) ==
    \/ a.mastery_level < b.mastery_level
    \/ a.mastery_level = b.mastery_level /\ DateAsc(a.last_review, b.last_review)

(* Mutant of OrderBy: the rows come in any order. *)
OrderByAnyOrder(dbw, S) ==
    {s \in [1..Cardinality(S) -> S] : \A i, j \in DOMAIN s : i < j => s[i] # s[j]}

(* The orders in which the database may return the rows of S: rows with    *)
(* equal sort columns come in any order.                                   *)
OrderBy(dbw, S) ==
    {s \in [1..Cardinality(S) -> S] :
        /\ \A i, j \in DOMAIN s : i < j => s[i] # s[j]
        /\ \A i, j \in DOMAIN s : i < j => OrderedBefore(dbw[s[i]], dbw[s[j]])}

(* Mutant of Limit: one row more than asked for. *)
LimitOneMore(s, n) == SubSeq(s, 1, IF n + 1 < Len(s) THEN n + 1 ELSE Len(s))

(* .limit(limit) *)
Limit(s, n) == SubSeq(s, 1, IF n < Len(s) THEN n ELSE Len(s))

(* One element of the returned list. *)
ReviewItem(k, row) ==
    [word_id |-> k[2],
     mastery_level |-> FloatOf(row.mastery_level),
     last_review |-> row.last_review,
     seen_count |-> row.seen_count,
     repetitions |-> row.repetitions]

(* Mutant of ReviewResult: a query that finds nothing is an error. *)
ReviewResultOrFail(dbw, rows) ==
    [ok |-> rows # <<>>, rows |-> rows,
     words |-> [i \in DOMAIN rows |-> ReviewItem(rows[i], dbw[rows[i]])]]

(* The list comprehension over the rows of the query; rows are the primary *)
(* keys of the objects .all() returned.                                    *)
ReviewResult(dbw, rows) ==
    [ok |-> TRUE, rows |-> rows,
     words |-> [i \in DOMAIN rows |-> ReviewItem(rows[i], dbw[rows[i]])]]

(* get_words_for_review(db, user_id, limit): the results the call may give. *)
GetWordsForReview(dbw, user_id, limit, day) ==
    {ReviewResult(dbw, Limit(s, limit)) :
        s \in OrderBy(dbw, Eligible(dbw, user_id, day))}

----------------------------------------------------------------------------
(* Client inputs *)

(* A WordProgressBase entry with the schema's defaults. *)
DefaultEntry(w) ==
    [word_id |-> w, mastery_level |-> 0, repetitions |-> 0, ease_factor |-> 250,
     last_review |-> NoDate, next_review |-> NoDate,
     seen_count |-> 0, correct_count |-> 0, malformed |-> ""]

(* An entry whose later fields all differ from the defaults. *)
ReviewedEntry(w, mastery, malformed) ==
    [word_id |-> w, mastery_level |-> mastery, repetitions |-> 1, ease_factor |-> 130,
     last_review |-> 1, next_review |-> 2,
     seen_count |-> 1, correct_count |-> 1, malformed |-> malformed]

(* The entries a client sends for word w: the defaults; 0.1, which no      *)
(* float holds exactly; equal mastery with other repetitions; 2.55, which  *)
(* has more decimals than the column; an ease_factor that is no number.    *)
EntriesFor(w) ==
    {DefaultEntry(w),
     [DefaultEntry(w) EXCEPT !.mastery_level = 10],
     ReviewedEntry(w, 0, ""),
     ReviewedEntry(w, 255, ""),
     ReviewedEntry(w, 10, "ease_factor")}

(* The second word takes the plain entries only. *)
SyncEntries ==
    EntriesFor("w1") \cup {DefaultEntry("w2"), ReviewedEntry("w2", 255, "")}

(* The sequences over S of length at most n. *)
SeqsUpTo(S, n) == UNION {[1..k -> S] : k \in 0..n}

(* The dicts with keys among K and values in V. *)
Dicts(K, V) == UNION {[D -> V] : D \in SUBSET K}

(* The stats map of a merge in the word-centred specification. *)
MergeStats == {EmptyDict, [k \in {"current_streak"} |-> 1]}

StreakKeys == {"current_streak", "max_streak"}

(* The stats maps of the stats-centred specification. *)
StatsPayloads ==
    {[k \in DOMAIN s \cup DOMAIN t \cup DOMAIN d |->
         IF k \in DOMAIN s THEN s[k] ELSE IF k \in DOMAIN t THEN t[k] ELSE d[k]] :
       s \in Dicts(StreakKeys, 0..MaxStreak),
       t \in Dicts({"total_words_learned"}, {1}),
       d \in Dicts({"last_active_date"}, {MaxDay, BadDate})}

(* The trial entry of the worked example, for word w. *)
AppleEntry(w) ==
    [word_id |-> w, mastery_level |-> 250, repetitions |-> 3, ease_factor |-> 280,
     last_review |-> NoDate, next_review |-> NoDate,
     seen_count |-> 5, correct_count |-> 3,
     missing |-> {"last_review", "next_review"}, malformed |-> ""]

TrialFields ==
    {"mastery_level", "repetitions", "ease_factor", "last_review", "next_review",
     "seen_count", "correct_count"}

(* The entries an anonymous client holds for word w: the example; only a   *)
(* word_id; 2.55, which has more decimals than the column; 7.0, which is   *)
(* outside [0.0, 5.0]; a mastery_level that is no number; dates, one of    *)
(* them unparseable; something that is no dict.                            *)
TrialEntriesFor(w) ==
    {AppleEntry(w),
     [AppleEntry(w) EXCEPT !.missing = TrialFields],
     [AppleEntry(w) EXCEPT !.mastery_level = 255],
     [AppleEntry(w) EXCEPT !.mastery_level = 700],
     [AppleEntry(w) EXCEPT !.malformed = "mastery_level"],
     [AppleEntry(w) EXCEPT !.last_review = BadDate, !.next_review = 2, !.missing = {}],
     [AppleEntry(w) EXCEPT !.malformed = NotADict]}

(* The second word takes the example and the bare entry. *)
TrialEntries ==
    TrialEntriesFor("w1") \cup
    {AppleEntry("w2"), [AppleEntry("w2") EXCEPT !.missing = TrialFields]}

(* A session summary; words_count tells the summaries apart. *)
SessionSummary(n, started_at, malformed) ==
    [practice_type |-> "flashcard", words_count |-> n, started_at |-> started_at,
     malformed |-> malformed]

(* The sessions lists of the trial specification: none, one summary, a     *)
(* summary that cannot be built followed by a good one.                    *)
TrialSessionLists ==
    {<<>>, <<SessionSummary(1, 1, FALSE)>>,
     <<SessionSummary(1, 1, TRUE), SessionSummary(2, BadDate, FALSE)>>}

(* The stats of the worked example. *)
AppleStats ==
    [k \in {"total_words_learned", "current_streak", "max_streak"} |->
        CASE k = "total_words_learned" -> 1
          [] k = "current_streak" -> 2
          [] OTHER -> 3]

(* trial_data with the given keys. *)
TrialDataOf(keys, words, sessions_data, stats) ==
    [k \in keys |-> CASE k = "words" -> words
                     [] k = "sessions" -> sessions_data
                     [] OTHER -> stats]

(* The trial_data objects of the trial specification. *)
TrialPayloads ==
    {EmptyDict} \cup
    {TrialDataOf(keys, w, sd, st) :
        keys \in {{"words"}, {"words", "sessions", "stats"}},
        w \in SeqsUpTo(TrialEntries, MaxBatch),
        sd \in TrialSessionLists,
        st \in {EmptyDict, AppleStats, [k \in {"current_streak"} |-> 2]}}

(* The merges that follow a trial import. *)
TrialMergeEntries == {DefaultEntry("w1"), ReviewedEntry("w1", 255, "")}

(* Session lists of every length up to MaxSessions; the i-th summary has   *)
(* words_count i and any of two timestamps.                                *)
SessionLists ==
    UNION {{[i \in 1..n |-> SessionSummary(i, ts[i], FALSE)] : ts \in [1..n -> {1, 2}]} :
              n \in 0..MaxSessions}

(* The accounts of the review specification. *)
ReviewUserIds == {"u1", "u2"}

(* A UserCreate without trial data, one address per account. *)
PlainUser(id) == UserCreate(id, id, "", NoDevice, EmptyDict)

(* An entry with the given mastery_level, last_review and next_review. *)
ReviewEntry(w, mastery, last_review, next_review) ==
    [DefaultEntry(w) EXCEPT !.mastery_level = mastery,
                            !.last_review = last_review,
                            !.next_review = next_review]

(* The progress a client reports for word w: never reviewed; reviewed and  *)
(* due on day 2; reviewed later and already due; mastered at exactly 4.0;  *)
(* just below 4.0 and never reviewed.                                      *)
ReviewEntriesFor(w) ==
    {ReviewEntry(w, 100, NoDate, NoDate),
     ReviewEntry(w, 100, 1, 2),
     ReviewEntry(w, 100, 2, 1),
     ReviewEntry(w, 400, 1, NoDate),
     ReviewEntry(w, 390, NoDate, 1)}

(* The first account learns three words, the second one. *)
ReviewWords(u) == IF u = "u1" THEN {"w1", "w2", "w3"} ELSE {"w1"}

NoTrial == UserCreate("a@x", "a", "", NoDevice, EmptyDict)

WithTrialStats(stats) ==
    UserCreate("a@x", "a", "", NoDevice, [k \in {"stats"} |-> stats])

----------------------------------------------------------------------------
(* State machine *)

Tables == [users |-> users, user_words |-> user_words,
           sessions |-> sessions, events |-> events]

Init ==
    /\ users = EmptyDict
    /\ user_words = EmptyDict
    /\ sessions = <<>>
    /\ events = <<>>
    /\ today = 1
    /\ last = [op |-> "none"]
    /\ prev = [users |-> EmptyDict, user_words |-> EmptyDict,
               sessions |-> <<>>, events |-> <<>>]
    /\ clock = 0
    /\ utc_offset = 0
    /\ tokens = {}

(* No call is being handled: requests are served one at a time. *)
Idle == last.op = "none"

(* The response of the last call has gone out; the next request sees the   *)
(* committed tables.                                                       *)
Respond ==
    /\ ~Idle
    /\ last' = [op |-> "none"]
    /\ prev' = Tables
    /\ UNCHANGED <<users, user_words, sessions, events, today, clock, utc_offset, tokens>>

(* POST /auth/register *)
Register(user_data, new_id, commit_fails) ==
    LET r == RegisterUser(users, user_words, sessions, events,
                          user_data, new_id, clock, commit_fails)
    IN  /\ Idle
        /\ users' = r.users
        /\ user_words' = r.user_words
        /\ sessions' = r.sessions
        /\ events' = r.events
        /\ last' = [op |-> "register", user |-> new_id, user_data |-> user_data,
                    commit_fails |-> commit_fails, ok |-> r.ok, status |-> r.status,
                    detail |-> r.detail, token |-> r.token]
        /\ prev' = Tables
        /\ tokens' = IF r.ok THEN tokens \cup {r.token} ELSE tokens
        /\ UNCHANGED <<today, clock, utc_offset>>

(* One call of sync_user_progress. *)
Sync(u, words, stats, commit_fails) ==
    LET r == SyncUserProgress(users, user_words, u, words, stats, today, commit_fails)
    IN  /\ Idle
        /\ users' = r.users
        /\ user_words' = r.user_words
        /\ last' = [op |-> "sync", user |-> u, words |-> words, stats |-> stats,
                    commit_fails |-> commit_fails, ok |-> r.ok,
                    updated_words |-> r.updated_words,
                    conflicts |-> r.conflicts, trace |-> r.trace]
        /\ prev' = Tables
        /\ UNCHANGED <<sessions, events, today, clock, utc_offset, tokens>>

(* The client sends the same batch twice in a row; the database accepts    *)
(* both commits.                                                           *)
Replay(u, words) ==
    LET r1 == SyncUserProgress(users, user_words, u, words, EmptyDict, today, FALSE)
        r2 == SyncUserProgress(r1.users, r1.user_words, u, words, EmptyDict, today, FALSE)
    IN  /\ Idle
        /\ users' = r2.users
        /\ user_words' = r2.user_words
        /\ last' = [op |-> "replay", user |-> u, words |-> words,
                    first |-> [ok |-> r1.ok, conflicts |-> r1.conflicts,
                               user_words |-> r1.user_words, trace |-> r1.trace],
                    second |-> [ok |-> r2.ok, conflicts |-> r2.conflicts,
                                trace |-> r2.trace]]
        /\ prev' = Tables
        /\ UNCHANGED <<sessions, events, today, clock, utc_offset, tokens>>

(* Requests are being handled at once. *)
Concurrent == last.op = "concurrent"

(* The requests in flight or finished since the server was last idle. *)
Calls == IF Concurrent THEN last.calls ELSE EmptyDict

(* Request c reaches sync_user_progress and runs it up to db.commit(). *)
SyncBegin(c, u, words, stats) ==
    /\ Idle \/ Concurrent
    /\ c \notin DOMAIN Calls
    /\ last' = [op |-> "concurrent",
                calls |-> SetKey(Calls, c,
                    [phase |-> "read", ok |-> FALSE,
                     call |-> SyncRead(users, user_words, u, words, stats, today),
                     before |-> Tables, after |-> Tables])]
    /\ prev' = IF Idle THEN Tables ELSE prev
    /\ UNCHANGED <<users, user_words, sessions, events, today, clock, utc_offset, tokens>>

(* Request c runs db.commit() and returns or raises. *)
SyncEnd(c) ==
    /\ Concurrent
    /\ c \in DOMAIN Calls
    /\ Calls[c].phase = "read"
    /\ LET r == SyncCommit(users, user_words, Calls[c].call)
       IN  /\ users' = r.users
           /\ user_words' = r.user_words
           /\ last' = [last EXCEPT !.calls[c] =
                          [@ EXCEPT !.phase = "done", !.ok = r.ok,
                                    !.before = Tables,
                                    !.after = [Tables EXCEPT !.users = r.users,
                                                             !.user_words = r.user_words]]]
    /\ UNCHANGED <<sessions, events, today, prev, clock, utc_offset, tokens>>

(* Every request in flight has been answered. *)
RespondAll ==
    /\ Concurrent => \A c \in DOMAIN Calls : Calls[c].phase = "done"
    /\ Respond

(* One call of get_words_for_review; the session is closed without a       *)
(* commit.                                                                 *)
Review(u, limit) ==
    /\ Idle
    /\ \E r \in GetWordsForReview(user_words, u, limit, today) :
          last' = [op |-> "review", user |-> u, limit |-> limit, ok |-> r.ok,
                   rows |-> r.rows, words |-> r.words]
    /\ prev' = Tables
    /\ UNCHANGED <<users, user_words, sessions, events, today, clock, utc_offset, tokens>>

(* Midnight passes. *)
Tick ==
    /\ Idle
    /\ today < MaxDay
    /\ today' = today + 1
    /\ UNCHANGED <<users, user_words, sessions, events, last, prev, clock, utc_offset, tokens>>

(* One call of POST /api/auth/login. *)
Login(login, commit_fails) ==
    \E found \in AuthenticateUser(users, login) :
        LET r == LoginUser(users, events, login, found, clock, commit_fails)
        IN  /\ Idle
            /\ events' = r.events
            /\ last' = [op |-> "login", login |-> login,
                        commit_fails |-> commit_fails, ok |-> r.ok,
                        status |-> r.status, detail |-> r.detail,
                        token |-> r.token, user |-> r.user,
                        found |-> found]
            /\ prev' = Tables
            /\ tokens' = IF r.ok THEN tokens \cup {r.token} ELSE tokens
            /\ UNCHANGED <<users, user_words, sessions, today, clock, utc_offset>>

(* One call of GET /api/auth/me with a bearer token. *)
Me(token) ==
    LET r == GetCurrentUserInfo(users, token, clock, utc_offset)
    IN  /\ Idle
        /\ last' = [op |-> "me", token |-> token, ok |-> r.ok,
                    status |-> r.status, detail |-> r.detail, id |-> r.id,
                    email |-> r.email, username |-> r.username]
        /\ prev' = Tables
        /\ UNCHANGED <<users, user_words, sessions, events, today, clock,
                       utc_offset, tokens>>

(* Time passes until the next request arrives. *)
AdvanceTo(t) ==
    /\ Idle
    /\ t > clock
    /\ clock' = t
    /\ UNCHANGED <<users, user_words, sessions, events, today, last, prev,
                   utc_offset, tokens>>

FreshIds == UserIds \ DOMAIN users

RegisterPlain == \E id \in FreshIds, cf \in BOOLEAN : Register(NoTrial, id, cf)

SyncWords ==
    \E u \in UserIds, words \in SeqsUpTo(SyncEntries, MaxBatch),
       stats \in MergeStats, cf \in BOOLEAN :
        Sync(u, words, stats, cf)

(* The merge engine: registration and merges of word batches. *)
Next == RegisterPlain \/ SyncWords \/ Respond

Spec == Init /\ [][Next]_vars

ReplayWords ==
    \E u \in UserIds, words \in SeqsUpTo(SyncEntries, MaxBatch) : Replay(u, words)

NextReplay == RegisterPlain \/ ReplayWords \/ Respond

SpecReplay == Init /\ [][NextReplay]_vars

RegisterTrialStats ==
    \E id \in FreshIds, stats \in StatsPayloads, cf \in BOOLEAN :
        Register(WithTrialStats(stats), id, cf)

SyncStatsOnly ==
    \E u \in UserIds, words \in {<<>>, <<DefaultEntry("w1")>>},
       stats \in StatsPayloads, cf \in BOOLEAN :
        Sync(u, words, stats, cf)

(* The stats aggregator: trial stats at registration, merges with stats. *)
NextStats == RegisterTrialStats \/ SyncStatsOnly \/ Tick \/ Respond

SpecStats == Init /\ [][NextStats]_vars

RegisterTrial ==
    \E id \in FreshIds, trial \in TrialPayloads, cf \in BOOLEAN :
        Register(UserCreate("a@x", "a", "", NoDevice, trial), id, cf)

SyncAfterTrial ==
    \E u \in UserIds, words \in SeqsUpTo(TrialMergeEntries, MaxBatch), cf \in BOOLEAN :
        Sync(u, words, EmptyDict, cf)

(* The trial importer: registration with trial data, then merges. *)
NextTrial == RegisterTrial \/ SyncAfterTrial \/ Respond

SpecTrial == Init /\ [][NextTrial]_vars

RegisterSessions ==
    \E id \in ReviewUserIds \ DOMAIN users, sd \in SessionLists :
        Register(UserCreate(id, id, "", NoDevice, [k \in {"sessions"} |-> sd]), id, FALSE)

(* The session import: registrations that bring session summaries. *)
NextSessions == RegisterSessions \/ Respond

SpecSessions == Init /\ [][NextSessions]_vars

(* The entries of the racing batches. *)
RaceEntries == {DefaultEntry("w1"), ReviewedEntry("w1", 255, ""), DefaultEntry("w2")}

CallIds == {1, 2}

SyncBeginAny ==
    \E c \in CallIds, u \in UserIds, words \in SeqsUpTo(RaceEntries, MaxBatch),
       stats \in MergeStats :
        SyncBegin(c, u, words, stats)

SyncEndAny == \E c \in CallIds : SyncEnd(c)

(* Two merge requests at a time, their reads and commits interleaved. *)
NextRace == RegisterPlain \/ SyncBeginAny \/ SyncEndAny \/ RespondAll

SpecRace == Init /\ [][NextRace]_vars

(* What a second account brings along when it registers. *)
OwnerTrials ==
    {EmptyDict,
     TrialDataOf({"words", "sessions", "stats"}, <<AppleEntry("w1")>>,
                 <<SessionSummary(1, 1, FALSE)>>, AppleStats)}

(* Both accounts report progress on the same word. *)
OwnerEntries == {DefaultEntry("w1"), ReviewedEntry("w1", 10, "")}

RegisterOwner ==
    \E id \in ReviewUserIds \ DOMAIN users, trial \in OwnerTrials :
        Register(UserCreate(id, id, "", NoDevice, trial), id, FALSE)

SyncOwner ==
    \E u \in ReviewUserIds, words \in SeqsUpTo(OwnerEntries, MaxBatch),
       stats \in MergeStats, cf \in BOOLEAN :
        Sync(u, words, stats, cf)

RegisterReviewer ==
    \E id \in ReviewUserIds \ DOMAIN users : Register(PlainUser(id), id, FALSE)

SyncReviewEntry ==
    \E u \in ReviewUserIds :
        \E w \in ReviewWords(u) :
            \E e \in ReviewEntriesFor(w) : Sync(u, <<e>>, EmptyDict, FALSE)

ReviewWordsDue == \E u \in ReviewUserIds, limit \in 0..MaxLimit : Review(u, limit)

(* The review selector over the progress that merges have stored. *)
NextReview == RegisterReviewer \/ SyncReviewEntry \/ ReviewWordsDue \/ Tick \/ Respond

SpecReview == Init /\ [][NextReview]_vars

(* Two accounts side by side: trial imports, merges and review queries. *)
NextOwners == RegisterOwner \/ SyncOwner \/ ReviewWordsDue \/ Respond

SpecOwners == Init /\ [][NextOwners]_vars

(* Authentication: accounts with and without a password, two of them with  *)
(* the same username and two registrations with the same email; logins     *)
(* with every combination of credentials; tokens presented as issued,      *)
(* with a signature of another key, and without exp; requests arriving     *)
(* at the start, near the end of a token's life and after it, on servers   *)
(* west of, at and east of UTC.                                            *)
MaxEvents == 3
UtcOffsets == {-5, 0, 8}
ClockTimes == {164, 168, 169}
Phone == <<"phone">>
AuthAccounts ==
    {UserCreate("a@x", "ann", "secret", NoDevice, EmptyDict),
     UserCreate("b@x", "ann", "", Phone, EmptyDict),
     UserCreate("a@x", "bob", "", Phone, EmptyDict)}
Logins ==
    {l \in [email : {"", "a@x", "b@x", "c@x"}, username : {"", "ann"},
            password : {"", "secret", "wrong1"}, device_id : {NoDevice, Phone}] :
        l.email # "" \/ l.username # "" \/ l.device_id # NoDevice}
PresentedTokens ==
    tokens \cup {[t EXCEPT !.sig = "other"] : t \in tokens}
           \cup {[t EXCEPT !.exp = NoExp] : t \in tokens}

InitAuth ==
    /\ users = EmptyDict
    /\ user_words = EmptyDict
    /\ sessions = <<>>
    /\ events = <<>>
    /\ today = 1
    /\ last = [op |-> "none"]
    /\ prev = [users |-> EmptyDict, user_words |-> EmptyDict,
               sessions |-> <<>>, events |-> <<>>]
    /\ clock = 0
    /\ utc_offset \in UtcOffsets
    /\ tokens = {}

RegisterAccount ==
    \E id \in ReviewUserIds \ DOMAIN users, user_data \in AuthAccounts :
        Register(user_data, id, FALSE)

LoginAny ==
    /\ Len(events) < MaxEvents
    /\ \E login \in Logins, cf \in BOOLEAN : Login(login, cf)

MeAny == \E token \in PresentedTokens : Me(token)

Advance == \E t \in ClockTimes : AdvanceTo(t)

NextAuth == RegisterAccount \/ LoginAny \/ MeAny \/ Advance \/ Respond

SpecAuth == InitAuth /\ [][NextAuth]_vars

----------------------------------------------------------------------------
(* What the claims speak of *)

IsSync == last.op = "sync"
SyncReturned == IsSync /\ last.ok

(* The merge applied a stats update: the account exists, the map is not    *)
(* empty, the call returned.                                               *)
StatsApplied ==
    SyncReturned /\ Truthy(last.stats) /\ last.user \in DOMAIN prev.users

(* A registration that imported trial stats. *)
TrialStatsApplied ==
    /\ last.op = "register"
    /\ last.ok
    /\ Truthy(DictGet(last.user_data.trial_data, "stats", EmptyDict))

TrialStats == last.user_data.trial_data["stats"]

Entries == DOMAIN last.words
Skipped(i) == last.trace[i].kind = "skipped"
KeyOf(i) == <<last.user, last.words[i].word_id>>

(* No later entry of the batch names the same word. *)
LastForWord(i) ==
    \A j \in Entries : j > i => last.words[j].word_id # last.words[i].word_id

(* The seven fields of the row are the entry's values. *)
RowIsEntry(row, e) ==
    /\ row.mastery_level = e.mastery_level
    /\ row.repetitions = e.repetitions
    /\ row.ease_factor = e.ease_factor
    /\ row.last_review = e.last_review
    /\ row.next_review = e.next_review
    /\ row.seen_count = e.seen_count
    /\ row.correct_count = e.correct_count

(* d is x rounded to one decimal place. *)
RoundedToTenth(d, x) == d % 10 = 0 /\ x - 5 < d /\ d <= x + 5

(* The row is the entry as the DECIMAL(3, 1) columns hold it. *)
RowIsEntryRounded(row, e) ==
    /\ RoundedToTenth(row.mastery_level, e.mastery_level)
    /\ row.repetitions = e.repetitions
    /\ RoundedToTenth(row.ease_factor, e.ease_factor)
    /\ row.last_review = e.last_review
    /\ row.next_review = e.next_review
    /\ row.seen_count = e.seen_count
    /\ row.correct_count = e.correct_count

(* The record the lookup of entry i found differs from the entry in        *)
(* mastery_level or repetitions.                                           *)
ServerDiffers(i) ==
    /\ last.trace[i].server # <<>>
    /\ \/ last.trace[i].server[1].mastery_level # last.words[i].mastery_level
       \/ last.trace[i].server[1].repetitions # last.words[i].repetitions

----------------------------------------------------------------------------
(* C1: for every entry of a merge that is not skipped, a conflict is added *)
(* if and only if a server record existed when the entry was processed and *)
(* its mastery_level or repetitions differs from the entry's; a batch      *)
(* whose entries all match the stored records returns no conflict.         *)
C1_ConflictIffDiffers ==
    SyncReturned =>
        /\ \A i \in Entries :
              ~Skipped(i) => (last.trace[i].conflict <=> ServerDiffers(i))
        /\ (\A i \in Entries : ~Skipped(i) /\ ~ServerDiffers(i))
              => last.conflicts = <<>>

(* C2 as claimed: after a merge that returned, every entry that was not    *)
(* skipped has a record whose seven fields equal the entry's values.       *)
C2_EveryEntryStored ==
    SyncReturned =>
        \A i \in Entries :
            ~Skipped(i) =>
                /\ KeyOf(i) \in DOMAIN user_words
                /\ RowIsEntry(user_words[KeyOf(i)], last.words[i])

(* C2 as amended: after a merge that returned, every entry that was not    *)
(* skipped has a record, and for the last entry of the batch for its word  *)
(* the record holds the entry's values, mastery_level and ease_factor      *)
(* rounded to the one decimal place of their columns; created or updated,  *)
(* conflict or not.                                                        *)
C2_LastEntryStored ==
    SyncReturned =>
        \A i \in Entries :
            ~Skipped(i) =>
                /\ KeyOf(i) \in DOMAIN user_words
                /\ LastForWord(i) =>
                      RowIsEntryRounded(user_words[KeyOf(i)], last.words[i])

(* A merge returned after updating a record under a conflict and creating  *)
(* another. *)
C2_Witness ==
    /\ SyncReturned
    /\ \E i \in Entries : last.trace[i].kind = "updated" /\ last.trace[i].conflict
                            /\ last.words[i].seen_count # last.trace[i].server[1].seen_count
    /\ \E i \in Entries : last.trace[i].kind = "created"

(* C3: a merge is all or nothing: when it returns, the record of every     *)
(* entry that was not skipped and the stats update are committed together; *)
(* when it raises (also at the commit), the tables are what they were      *)
(* before the call.                                                        *)
C3_AllOrNothing ==
    IsSync =>
        /\ last.commit_fails => ~last.ok
        /\ last.ok =>
              /\ \A i \in Entries :
                    ~Skipped(i) =>
                       /\ KeyOf(i) \in DOMAIN user_words
                       /\ LastForWord(i) =>
                             user_words[KeyOf(i)].repetitions = last.words[i].repetitions
              /\ (Truthy(last.stats) /\ last.user \in DOMAIN prev.users) =>
                    /\ users[last.user].last_active_date = today
                    /\ users[last.user].current_streak =
                          DictGet(last.stats, "current_streak",
                                  prev.users[last.user].current_streak)
        /\ ~last.ok => Tables = prev

(* A merge that had changed a record, created another and set the stats    *)
(* raised at the commit.                                                   *)
C3_Witness ==
    /\ IsSync
    /\ ~last.ok
    /\ last.commit_fails
    /\ last.user \in DOMAIN prev.users
    /\ last.stats # EmptyDict
    /\ DictGet(last.stats, "current_streak", 0) # prev.users[last.user].current_streak
    /\ \E i \in Entries :
          /\ last.trace[i].kind = "updated"
          /\ last.words[i].repetitions # last.trace[i].server[1].repetitions
    /\ \E i \in Entries : last.trace[i].kind = "created"

C5_EachEntryCounted ==
    SyncReturned =>
        /\ Len(last.trace) = Len(last.words)
        /\ \A i \in Entries :
              /\ last.trace[i].kind \in {"created", "updated", "skipped"}
              /\ last.trace[i].kind = "created" =>
                    KeyOf(i) \notin DOMAIN prev.user_words /\ KeyOf(i) \in DOMAIN user_words
              /\ last.trace[i].kind = "updated" => KeyOf(i) \in DOMAIN prev.user_words
              /\ Skipped(i) <=> last.words[i].malformed # ""
        /\ last.updated_words =
              Cardinality({i \in Entries : last.trace[i].kind \in {"created", "updated"}})
        /\ last.updated_words <= Len(last.words)
        /\ last.updated_words < Len(last.words) <=> \E i \in Entries : Skipped(i)

(* A merge returned with one entry skipped and another one written. *)
C5_Witness ==
    /\ SyncReturned
    /\ \E i \in Entries : Skipped(i)
    /\ last.updated_words = 1
    /\ last.updated_words < Len(last.words)

(* C6: a batch merged twice in a row, nothing written in between: the      *)
(* records after the second run are those after the first, and the second  *)
(* run reports no conflict.                                                *)
C6_ReplayIdempotent ==
    (last.op = "replay" /\ last.first.ok) =>
        /\ last.second.ok
        /\ user_words = last.first.user_words
        /\ last.second.conflicts = <<>>

C8_MaxAtLeastCurrent ==
    \A u \in DOMAIN users : users[u].max_streak >= users[u].current_streak

(* C9 as claimed: after a stats update, by a merge or by the trial import, *)
(* the stored last_active_date is the server's current date.               *)
C9_LastActiveIsToday ==
    (StatsApplied \/ TrialStatsApplied) =>
        users[last.user].last_active_date = today

(* C9 as amended: after a stats update by a merge the stored               *)
(* last_active_date is the server's current date, whatever date the client *)
(* sent; the trial import stores the payload's last_active_date when it    *)
(* parses as a date and leaves the field unset otherwise.                  *)
C9_LastActiveByMerge ==
    /\ StatsApplied => users[last.user].last_active_date = today
    /\ TrialStatsApplied =>
          users[last.user].last_active_date =
              IF DictGet(TrialStats, "last_active_date", BadDate) = BadDate
              THEN NoDate
              ELSE TrialStats["last_active_date"]

(* A merge whose stats named another day than today was applied. *)
C9_Witness ==
    /\ StatsApplied
    /\ DictGet(last.stats, "last_active_date", today) \notin {today, BadDate}
    /\ prev.users[last.user].last_active_date # today

(* C10: a merge with a non-empty stats map sets total_words_learned and    *)
(* current_streak to the incoming value when the map has the key and       *)
(* keeps the stored value when it has not.                                 *)
C10_OverwriteOrKeep ==
    StatsApplied =>
        \A k \in {"total_words_learned", "current_streak"} :
            users[last.user][k] =
                IF k \in DOMAIN last.stats THEN last.stats[k]
                ELSE prev.users[last.user][k]

(* A merge overwrote current_streak and kept a total_words_learned that    *)
(* its stats did not name.                                                 *)
C10_Witness ==
    /\ StatsApplied
    /\ "total_words_learned" \notin DOMAIN last.stats
    /\ prev.users[last.user].total_words_learned > 0
    /\ "current_streak" \in DOMAIN last.stats
    /\ last.stats["current_streak"] # prev.users[last.user].current_streak

----------------------------------------------------------------------------
(* Review selector *)

IsReview == last.op = "review"

(* The stored record behind the i-th returned item. *)
Returned(i) == user_words[last.rows[i]]

(* The stored records of the asking user that are due: mastery_level below *)
(* 4.0 and next_review absent or not after today.                          *)
DueKeys ==
    {k \in DOMAIN user_words :
        /\ k[1] = last.user
        /\ user_words[k].mastery_level < 400
        /\ (user_words[k].next_review = NoDate \/ user_words[k].next_review <= today)}

(* Record a comes strictly before record b: lower mastery_level, or equal  *)
(* mastery_level and an earlier last_review, absent being earliest.        *)
StrictlyBefore(a, b) ==
    \/ a.mastery_level < b.mastery_level
    \/ /\ a.mastery_level = b.mastery_level
       /\ a.last_review # b.last_review
       /\ (a.last_review = NoDate \/ (b.last_review # NoDate /\ a.last_review < b.last_review))

(* C11: get_words_for_review returns at most N records, each of the asking *)
(* user, each with mastery_level < 4.0 and next_review absent or <= today, *)
(* no record twice, and min(N, number of due records) of them; the items   *)
(* returned carry the fields of those records.                             *)
C11_ReviewSelectsDue ==
    IsReview =>
        /\ Len(last.rows) <= last.limit
        /\ \A i \in DOMAIN last.rows :
              /\ last.rows[i] \in DueKeys
              /\ last.rows[i][1] = last.user
              /\ Returned(i).mastery_level < 400
              /\ (Returned(i).next_review = NoDate \/ Returned(i).next_review <= today)
              /\ last.words[i].word_id = last.rows[i][2]
              /\ last.words[i].mastery_level = Returned(i).mastery_level
        /\ \A i, j \in DOMAIN last.rows : i # j => last.rows[i] # last.rows[j]
        /\ Len(last.rows) = (IF last.limit < Cardinality(DueKeys)
                              THEN last.limit ELSE Cardinality(DueKeys))
        /\ Len(last.words) = Len(last.rows)

(* A call that returned a record due exactly today while the user also has *)
(* a record at exactly 4.0 and another account has a due record.           *)
C11_Witness ==
    /\ IsReview
    /\ \E i \in DOMAIN last.rows : Returned(i).next_review = today
    /\ \E k \in DOMAIN user_words :
          k[1] = last.user /\ user_words[k].mastery_level = 400
    /\ \E k \in DOMAIN user_words :
          k[1] # last.user /\ user_words[k].mastery_level < 400
                           /\ user_words[k].next_review = NoDate

(* C12: the returned list is sorted by mastery_level ascending, then by    *)
(* last_review ascending with absent first, and no due record that was     *)
(* left out comes strictly before a returned one.                          *)
C12_ReviewOrdered ==
    IsReview =>
        /\ \A i, j \in DOMAIN last.rows :
              i < j => ~StrictlyBefore(Returned(j), Returned(i))
        /\ \A k \in DueKeys :
              (\A i \in DOMAIN last.rows : last.rows[i] # k) =>
                  \A i \in DOMAIN last.rows : ~StrictlyBefore(user_words[k], Returned(i))

(* Two records of equal mastery_level with last_review 1 and 2 came back   *)
(* in that order while a third due record was cut off by the limit; and    *)
(* the user has a never-reviewed record.                                   *)
C12_Witness ==
    /\ IsReview
    /\ Len(last.rows) = 2
    /\ Returned(1).mastery_level = Returned(2).mastery_level
    /\ \/ Returned(1).last_review = 1 /\ Returned(2).last_review = 2
       \/ Returned(1).last_review = NoDate /\ Returned(2).last_review # NoDate
    /\ Cardinality(DueKeys) > 2

(* C13: get_words_for_review changes no table, and with no due record it   *)
(* returns the empty list instead of failing.                              *)
C13_ReviewReadOnly ==
    IsReview =>
        /\ Tables = prev
        /\ last.ok
        /\ DueKeys = {} => last.words = <<>>

(* A call for a user who has records, none of them due. *)
C13_Witness ==
    /\ IsReview
    /\ last.ok
    /\ last.limit > 0
    /\ last.words = <<>>
    /\ \E k \in DOMAIN user_words : k[1] = last.user
    /\ sessions = prev.sessions /\ users = prev.users

----------------------------------------------------------------------------
(* Trial import and registration *)

IsRegister == last.op = "register"
Registered == IsRegister /\ last.ok

TrialData == last.user_data.trial_data
TrialWords == DictGet(TrialData, "words", <<>>)
TrialSessions == DictGet(TrialData, "sessions", <<>>)

(* The session record is the summary, stored for the new user. *)
SessionIsSummary(row, sd) ==
    /\ row.user_id = last.user
    /\ row.practice_type = sd.practice_type
    /\ row.words_count = sd.words_count
    /\ row.started_at = sd.started_at

(* C14: a trial import of n well-formed session summaries adds exactly     *)
(* min(n, 5) session records: the last min(n, 5) summaries of the input,   *)
(* in input order.                                                         *)
C14_LastFiveSessions ==
    (Registered /\ \A i \in DOMAIN TrialSessions : ~TrialSessions[i].malformed) =>
        LET n == Len(TrialSessions)
            m == IF n > 5 THEN 5 ELSE n
            base == Len(prev.sessions)
        IN  /\ Len(sessions) = base + m
            /\ SubSeq(sessions, 1, base) = prev.sessions
            /\ \A j \in 1..m :
                  SessionIsSummary(sessions[base + j], TrialSessions[n - m + j])

(* Six summaries, the oldest timestamp last, imported into a table that    *)
(* already holds another account's sessions.                               *)
C14_Witness ==
    /\ Registered
    /\ Len(TrialSessions) = 6
    /\ TrialSessions[1].started_at = 2
    /\ TrialSessions[6].started_at = 1
    /\ Len(prev.sessions) > 0
    /\ Len(sessions) = Len(prev.sessions) + 5

(* The construction of the trial entry raises inside the try block and the *)
(* entry is skipped: a field that Decimal() cannot read.                   *)
TrialSkipped(wd) ==
    wd.malformed \in {"mastery_level", "ease_factor"} /\ wd.malformed \notin wd.missing

(* The element is a dict. *)
IsDict(wd) == wd.malformed # NotADict

(* The trial entries that become records. *)
Imported == {i \in DOMAIN TrialWords : IsDict(TrialWords[i]) /\ ~TrialSkipped(TrialWords[i])}

(* The import itself fails: an element of the words list is no dict. *)
TrialImportFails == \E i \in DOMAIN TrialWords : ~IsDict(TrialWords[i])

(* The session summaries that become records. *)
ImportedSessions ==
    {i \in DOMAIN TrialSessions :
        /\ ~TrialSessions[i].malformed
        /\ i > Len(TrialSessions) - 5}

(* C15: registration with trial data commits the account, the imported     *)
(* words, sessions and stats and the registration event together or not at *)
(* all; it fails when the import or the commit fails and then leaves every *)
(* table as it was; entries that were merely skipped do not make it fail.  *)
C15_RegistrationAtomic ==
    IsRegister =>
        /\ ~last.ok => Tables = prev
        /\ (last.commit_fails \/ TrialImportFails) => ~last.ok
        /\ last.ok =>
              /\ last.user \in DOMAIN users \ DOMAIN prev.users
              /\ Len(events) = Len(prev.events) + 1
              /\ events[Len(events)].user_id = last.user
              /\ events[Len(events)].event_type = "registration"
              /\ \A i \in Imported : <<last.user, TrialWords[i].word_id>> \in DOMAIN user_words
              /\ Len(sessions) = Len(prev.sessions) + Cardinality(ImportedSessions)
              /\ Truthy(DictGet(TrialData, "stats", EmptyDict)) =>
                    users[last.user].max_streak = DictGet(TrialData["stats"], "max_streak", 0)
        /\ ( /\ ~last.commit_fails
             /\ ~TrialImportFails
             /\ last.user \notin DOMAIN prev.users
             /\ \A i, j \in Imported :
                   i # j => TrialWords[i].word_id # TrialWords[j].word_id ) => last.ok

(* A registration whose import failed on the second element after a good   *)
(* first one, with sessions and stats in the payload: nothing of it is     *)
(* stored.                                                                 *)
C15_Witness ==
    /\ IsRegister
    /\ ~last.ok
    /\ ~last.commit_fails
    /\ Len(TrialWords) = 2
    /\ 1 \in Imported
    /\ ~IsDict(TrialWords[2])
    /\ Len(TrialSessions) > 0
    /\ Truthy(DictGet(TrialData, "stats", EmptyDict))
    /\ users = EmptyDict /\ user_words = EmptyDict /\ sessions = <<>> /\ events = <<>>

(* The value of field k of a trial entry, or the default when it is        *)
(* missing.                                                                *)
FieldOr(wd, k, default) == IF k \in wd.missing THEN default ELSE wd[k]

(* A date as the import reads it: unparseable text counts as absent. *)
DateOrAbsent(x) == IF x = BadDate THEN NoDate ELSE x

(* The record holds the entry's values, the defaults 0.0, 2.5, 0, 0, 0 for *)
(* missing fields, in the precision of the DECIMAL(3, 1) columns.          *)
RowIsTrialEntry(row, wd) ==
    /\ RoundedToTenth(row.mastery_level, FieldOr(wd, "mastery_level", 0))
    /\ RoundedToTenth(row.ease_factor, FieldOr(wd, "ease_factor", 250))
    /\ row.repetitions = FieldOr(wd, "repetitions", 0)
    /\ row.seen_count = FieldOr(wd, "seen_count", 0)
    /\ row.correct_count = FieldOr(wd, "correct_count", 0)
    /\ row.last_review = DateOrAbsent(FieldOr(wd, "last_review", NoDate))
    /\ row.next_review = DateOrAbsent(FieldOr(wd, "next_review", NoDate))

(* Nothing but the entries themselves stands in the way: a new account,    *)
(* the database accepts the commit, no word_id comes twice.                *)
TrialCommitPossible ==
    /\ IsRegister
    /\ ~last.commit_fails
    /\ last.user \notin DOMAIN prev.users
    /\ \A i, j \in Imported : i # j => TrialWords[i].word_id # TrialWords[j].word_id

(* C16: the trial word import creates one record per well-formed entry     *)
(* from its values and the defaults; an entry whose construction fails is  *)
(* skipped and every other entry is still imported.                        *)
C16_OtherEntriesImported ==
    TrialCommitPossible =>
        \A i \in Imported :
            /\ <<last.user, TrialWords[i].word_id>> \in DOMAIN user_words
            /\ RowIsTrialEntry(user_words[<<last.user, TrialWords[i].word_id>>],
                               TrialWords[i])

HasTrialStats == Truthy(DictGet(TrialData, "stats", EmptyDict))

(* The account's flag and, when stats came along, its three counters are   *)
(* the payload's (0 for a counter the stats omit).                         *)
TrialAccountAsSupplied ==
    /\ users[last.user].registered_from_trial <=> TrialData # EmptyDict
    /\ HasTrialStats =>
          /\ users[last.user].total_words_learned =
                 DictGet(TrialData["stats"], "total_words_learned", 0)
          /\ users[last.user].current_streak =
                 DictGet(TrialData["stats"], "current_streak", 0)
          /\ users[last.user].max_streak =
                 DictGet(TrialData["stats"], "max_streak", 0)

(* Each field the entry supplies is stored exactly as supplied. *)
RowIsSupplied(row, wd) ==
    \A k \in TrialFields \ wd.missing : row[k] = wd[k]

(* C17 as stated: after a successful registration registered_from_trial    *)
(* is true iff trial_data was non-empty, the counters equal the payload's  *)
(* stats, and each well-formed trial word is stored under the new user     *)
(* with its supplied values.                                               *)
C17_TrialStoredAsSupplied ==
    Registered =>
        /\ TrialAccountAsSupplied
        /\ \A i \in Imported :
              /\ <<last.user, TrialWords[i].word_id>> \in DOMAIN user_words
              /\ RowIsSupplied(user_words[<<last.user, TrialWords[i].word_id>>],
                               TrialWords[i])

(* C17 amended: as above, with mastery_level and ease_factor stored        *)
(* rounded to one decimal place, an unparseable date stored as absent,     *)
(* and the defaults for missing fields.                                    *)
C17_TrialStoredRounded ==
    Registered =>
        /\ TrialAccountAsSupplied
        /\ \A i \in Imported :
              /\ <<last.user, TrialWords[i].word_id>> \in DOMAIN user_words
              /\ RowIsTrialEntry(user_words[<<last.user, TrialWords[i].word_id>>],
                                 TrialWords[i])

(* A registration that brought the example stats, a word at 2.55 and the   *)
(* example word at 2.5.                                                    *)
C17_Witness ==
    /\ Registered
    /\ DictGet(TrialData, "stats", EmptyDict) = AppleStats
    /\ users[last.user].registered_from_trial
    /\ users[last.user].max_streak = 3
    /\ Len(TrialWords) = 2
    /\ TrialWords[1].mastery_level = 255
    /\ {<<last.user, "w1">>, <<last.user, "w2">>} \subseteq DOMAIN user_words
    /\ user_words[<<last.user, "w1">>].mastery_level = 260
    /\ user_words[<<last.user, "w2">>].mastery_level = 250

----------------------------------------------------------------------------
(* Invariants of the progress store *)

(* C18: every stored progress record has mastery_level in [0.0, 5.0],      *)
(* ease_factor in [1.3, 5.0] and non-negative repetitions, seen_count and  *)
(* correct_count, whatever trial imports and merges were accepted.         *)
C18_FieldsInRange ==
    \A k \in DOMAIN user_words :
        /\ 0 <= user_words[k].mastery_level /\ user_words[k].mastery_level <= 500
        /\ 130 <= user_words[k].ease_factor /\ user_words[k].ease_factor <= 500
        /\ user_words[k].repetitions >= 0
        /\ user_words[k].seen_count >= 0
        /\ user_words[k].correct_count >= 0

(* C19: a merge never lowers the seen_count or correct_count of a record   *)
(* that existed before it.                                                 *)
C19_CountersNeverDecrease ==
    SyncReturned =>
        \A k \in DOMAIN prev.user_words :
            /\ k \in DOMAIN user_words
            /\ user_words[k].seen_count >= prev.user_words[k].seen_count
            /\ user_words[k].correct_count >= prev.user_words[k].correct_count

(* The keys for which the last call built a new record, one per new        *)
(* object, in order.                                                       *)
CreatedKeys ==
    IF IsSync
    THEN [i \in {j \in Entries : last.trace[j].kind = "created"} |-> KeyOf(i)]
    ELSE [i \in Imported |-> <<last.user, FieldOr(TrialWords[i], "word_id", "")>>]

(* The call built two records for one key, or one for a key that is        *)
(* already stored.                                                         *)
CreatesSecondRecord ==
    \/ \E i, j \in DOMAIN CreatedKeys : i # j /\ CreatedKeys[i] = CreatedKeys[j]
    \/ \E i \in DOMAIN CreatedKeys : CreatedKeys[i] \in DOMAIN prev.user_words

(* C20: a merge or registration that would store a second record for a     *)
(* (user_id, word_id) fails and commits nothing; one that commits stores   *)
(* exactly one record per new object beside the records it found.          *)
C20_OneRecordPerKey ==
    (IsSync \/ (IsRegister /\ ~TrialImportFails)) =>
        /\ CreatesSecondRecord => (~last.ok /\ Tables = prev)
        /\ last.ok =>
              Cardinality(DOMAIN user_words) =
                  Cardinality(DOMAIN prev.user_words) + Cardinality(DOMAIN CreatedKeys)

(* A merge whose batch names a new word twice: it failed and the word has  *)
(* no record.                                                              *)
C20_Witness ==
    /\ IsSync
    /\ ~last.commit_fails
    /\ last.user \in DOMAIN users
    /\ Len(last.words) = 2
    /\ last.trace[1].kind = "created" /\ last.trace[2].kind = "created"
    /\ last.words[1].word_id = last.words[2].word_id
    /\ ~last.ok
    /\ KeyOf(1) \notin DOMAIN user_words

----------------------------------------------------------------------------
(* Concurrent merges *)

(* The keys for which request c found no record and built a new one. *)
CreatedBy(c) ==
    {<<Calls[c].call.user, Calls[c].call.words[i].word_id>> :
        i \in {j \in DOMAIN Calls[c].call.words : Calls[c].call.st.trace[j].kind = "created"}}

(* Request c names one new word twice in its own batch. *)
OwnDuplicate(c) ==
    \E i, j \in DOMAIN Calls[c].call.words :
        /\ i < j
        /\ Calls[c].call.st.trace[i].kind = "created"
        /\ Calls[c].call.st.trace[j].kind = "created"
        /\ Calls[c].call.words[i].word_id = Calls[c].call.words[j].word_id

(* Both requests ran for one existing account, both found no record for    *)
(* some word and built one, and both have finished.                        *)
RaceOver ==
    /\ Concurrent
    /\ DOMAIN Calls = CallIds
    /\ \A c \in CallIds : Calls[c].phase = "done"
    /\ Calls[1].call.user = Calls[2].call.user
    /\ \A c \in CallIds : Calls[c].call.user \in DOMAIN Calls[c].call.read_users
    /\ CreatedBy(1) \cap CreatedBy(2) # {}
    /\ \A c \in CallIds : ~OwnDuplicate(c)

(* C21: of two concurrent merges that both found no record for the same    *)
(* word, exactly one commits; the other fails and leaves every table as it *)
(* was at its commit, so the winner's record and stats stand.              *)
C21_OneWriterWins ==
    RaceOver =>
        \E w \in CallIds :
            LET l == CHOOSE c \in CallIds : c # w
            IN  /\ Calls[w].ok
                /\ ~Calls[l].ok
                /\ Calls[l].after = Calls[l].before
                /\ users = Calls[w].after.users
                /\ user_words = Calls[w].after.user_words
                /\ CreatedBy(w) \subseteq DOMAIN user_words

(* A race the second request lost although its batch also created another  *)
(* word and carried stats: neither is stored.                              *)
C21_Witness ==
    /\ RaceOver
    /\ Calls[1].ok
    /\ ~Calls[2].ok
    /\ Truthy(Calls[2].call.stats)
    /\ ~Truthy(Calls[1].call.stats)
    /\ <<"u1", "w2">> \in CreatedBy(2)
    /\ <<"u1", "w2">> \notin DOMAIN user_words
    /\ users["u1"].current_streak = 0

----------------------------------------------------------------------------
(* Isolation between accounts *)

(* The progress records of account u alone. *)
OwnWords(dbw, u) == [k \in {x \in DOMAIN dbw : x[1] = u} |-> dbw[k]]

(* Nothing that belongs to another account than the caller's has changed. *)
OthersUnchanged ==
    /\ \A k \in DOMAIN user_words \cup DOMAIN prev.user_words :
          k[1] # last.user =>
              /\ k \in DOMAIN user_words \cap DOMAIN prev.user_words
              /\ user_words[k] = prev.user_words[k]
    /\ \A x \in DOMAIN users \cup DOMAIN prev.users :
          x # last.user =>
              /\ x \in DOMAIN users \cap DOMAIN prev.users
              /\ users[x] = prev.users[x]
    /\ Len(sessions) >= Len(prev.sessions)
    /\ SubSeq(sessions, 1, Len(prev.sessions)) = prev.sessions
    /\ \A i \in DOMAIN sessions : i > Len(prev.sessions) => sessions[i].user_id = last.user

(* The call's result is the one it has when only the caller's own records  *)
(* are stored.                                                             *)
ResultFromOwnRecords ==
    /\ IsSync =>
          LET alone == SyncUserProgress(prev.users, OwnWords(prev.user_words, last.user),
                                        last.user, last.words, last.stats, today,
                                        last.commit_fails)
          IN  /\ last.ok = alone.ok
              /\ last.conflicts = alone.conflicts
              /\ last.updated_words = alone.updated_words
    /\ IsReview =>
          \E r \in GetWordsForReview(OwnWords(user_words, last.user), last.user,
                                     last.limit, today) :
              r.ok = last.ok /\ r.words = last.words

(* C22: a merge, trial import or review query for one account leaves the   *)
(* records, sessions and stats of every other account unchanged, and its   *)
(* result depends on the caller's own records only.                        *)
C22_AccountsIsolated ==
    (IsSync \/ IsReview \/ IsRegister) => (OthersUnchanged /\ ResultFromOwnRecords)

(* A merge that updated the caller's record without a conflict while the   *)
(* other account holds a different record of the same word, and a session. *)
C22_Witness ==
    /\ SyncReturned
    /\ Len(last.words) = 1
    /\ last.trace[1].kind = "updated"
    /\ last.conflicts = <<>>
    /\ \E o \in DOMAIN user_words :
          /\ o[1] # last.user
          /\ o[2] = last.words[1].word_id
          /\ user_words[o].repetitions # last.words[1].repetitions
    /\ \E i \in DOMAIN sessions : sessions[i].user_id # last.user

----------------------------------------------------------------------------
(* Merge engine: accounts, repeated words, stats, skipped entries *)

(* C23: a merge for a user_id that has no account fails and stores         *)
(* nothing.                                                                *)
C23_UnknownAccountFails ==
    (IsSync /\ last.user \notin DOMAIN prev.users) => (~last.ok /\ Tables = prev)

(* C27: a batch that names a word without a record twice succeeds: the     *)
(* first entry creates the record, the second updates it, both are counted *)
(* and the record holds the second entry's values.                         *)
C27_SecondEntryUpdates ==
    ( /\ IsSync
      /\ ~last.commit_fails
      /\ last.user \in DOMAIN prev.users
      /\ Len(last.words) = 2
      /\ last.words[1].word_id = last.words[2].word_id
      /\ last.words[1].malformed = "" /\ last.words[2].malformed = ""
      /\ KeyOf(1) \notin DOMAIN prev.user_words ) =>
        /\ last.ok
        /\ last.updated_words = 2
        /\ last.trace[1].kind = "created"
        /\ last.trace[2].kind = "updated"
        /\ KeyOf(2) \in DOMAIN user_words
        /\ RowIsEntryRounded(user_words[KeyOf(2)], last.words[2])

(* The four stats fields of the caller's account are what they were. *)
StatsUnchanged ==
    /\ users[last.user].total_words_learned = prev.users[last.user].total_words_learned
    /\ users[last.user].current_streak = prev.users[last.user].current_streak
    /\ users[last.user].max_streak = prev.users[last.user].max_streak
    /\ users[last.user].last_active_date = prev.users[last.user].last_active_date

(* C28: a merge with an empty stats map leaves total_words_learned,        *)
(* current_streak, max_streak and last_active_date unchanged and still     *)
(* commits its word writes; the four fields change only in a merge that    *)
(* returned and carried a non-empty stats map.                             *)
C28_NoStatsNoChange ==
    (IsSync /\ last.user \in DOMAIN prev.users) =>
        /\ (last.ok /\ ~Truthy(last.stats)) =>
              /\ StatsUnchanged
              /\ \A i \in Entries : ~Skipped(i) => KeyOf(i) \in DOMAIN user_words
        /\ ~StatsUnchanged => (last.ok /\ Truthy(last.stats))

(* A merge without stats, on a later day than the account was last active, *)
(* that created a record.                                                  *)
C28_Witness ==
    /\ SyncReturned
    /\ last.user \in DOMAIN prev.users
    /\ ~Truthy(last.stats)
    /\ Len(last.words) = 1
    /\ KeyOf(1) \notin DOMAIN prev.user_words
    /\ KeyOf(1) \in DOMAIN user_words
    /\ today = 2
    /\ users[last.user].last_active_date # today
    /\ users[last.user].current_streak > 0

----------------------------------------------------------------------------
(* Registration with an email that is taken, login, tokens *)

IsLogin == last.op = "login"
IsMe == last.op = "me"

(* The accounts of the table dbu that have the email. *)
WithEmail(dbu, email) == {u \in DOMAIN dbu : dbu[u].email = email}

(* The registration just answered asked for an email an account had. *)
DuplicateEmail ==
    IsRegister /\ WithEmail(prev.users, last.user_data.email) # {}

(* The text of the response names the email as the reason. *)
MentionsEmail(detail) ==
    \E i \in DOMAIN detail : detail[i] = "Email already registered"

NoSuchEmail ==
    /\ IsLogin
    /\ last.login.email # ""
    /\ WithEmail(prev.users, last.login.email) = {}

(* The login named the email of an account with a password and gave a      *)
(* password that is not the account's, and no device.                      *)
WrongPassword ==
    /\ IsLogin
    /\ last.login.email # ""
    /\ last.login.password # ""
    /\ last.login.device_id = NoDevice
    /\ \E u \in WithEmail(prev.users, last.login.email) :
          /\ prev.users[u].password_hash # NoHash
          /\ ~VerifyPassword(last.login.password, prev.users[u].password_hash)

(* C25: a login with an email that has no account, or with a wrong         *)
(* password for an account that has one, is rejected with 401 and the      *)
(* message 'Invalid email or password', and no token is returned.          *)
C25_RejectedWithMessage ==
    NoSuchEmail \/ WrongPassword =>
        /\ last.status = 401
        /\ last.detail = "Invalid email or password"
        /\ last.token = NoToken

(* What holds of C25: such a login is rejected with 401 and no token. *)
LoginRejected ==
    NoSuchEmail \/ WrongPassword =>
        last.status = 401 /\ last.token = NoToken /\ events = prev.events

(* The token of the request was issued by the server and its exp has not   *)
(* passed.                                                                 *)
Unexpired ==
    /\ IsMe
    /\ last.token \in tokens
    /\ clock <= last.token.exp

(* The token of the request has a wrong signature, no exp, or an exp that  *)
(* has passed.                                                             *)
Invalid ==
    /\ IsMe
    /\ \/ last.token.sig # "server"
       \/ last.token.exp = NoExp
       \/ clock > last.token.exp

(* The request was answered with the account the token was issued for. *)
ResolvesToOwner ==
    /\ last.status = 200
    /\ last.id = last.token.sub
    /\ last.email = users[last.token.sub].email
    /\ last.username = users[last.token.sub].username

(* C26: an unexpired token issued for a registered user resolves to that   *)
(* user, so /auth/me returns the user's username and email; a token with   *)
(* a wrong signature, without exp or expired resolves to no user and is    *)
(* rejected with 401.                                                      *)
C26_TokenRoundTrip ==
    /\ Unexpired => ResolvesToOwner
    /\ Invalid => last.status = 401 /\ last.id = NoUser

(* What holds of C26: the rejections, and the round trip on a server whose *)
(* local time is not behind UTC.                                           *)
TokenRoundTripEastOfUtc ==
    /\ Unexpired /\ utc_offset >= 0 => ResolvesToOwner
    /\ Invalid => last.status = 401 /\ last.id = NoUser

(* An unexpired token was refused. *)
UnexpiredRefused == Unexpired /\ last.status = 401

(* The login supplied the credential that opens the account. *)
Proves(login, row) ==
    \/ VerifyPassword(login.password, row.password_hash)
    \/ login.device_id # NoDevice /\ login.device_id = row.device_id

(* The login supplied an email or a username and nothing else. *)
NameAlone ==
    /\ IsLogin
    /\ last.login.password = ""
    /\ last.login.device_id = NoDevice

(* An account with a password hash is returned only to the password or the *)
(* device; the email or username of protected accounts alone yields no     *)
(* user.                                                                   *)
ProtectedNeedsProof ==
    /\ IsLogin /\ last.found # NoUser
         /\ prev.users[last.found].password_hash # NoHash
       => Proves(last.login, prev.users[last.found])
    /\ NameAlone /\ FindUser(prev.users, last.login) # {}
         /\ (\A u \in FindUser(prev.users, last.login) :
                prev.users[u].password_hash # NoHash)
       => last.found = NoUser

(* C30, with the last sentence as the code has it: an account with a       *)
(* password hash is returned only to its password or its device, its email *)
(* or username alone yields no user; an account without a password hash is *)
(* returned for its email alone, and for its username alone when it is the *)
(* row the lookup by username finds.                                       *)
C30_PasswordOrDeviceRequired ==
    /\ ProtectedNeedsProof
    /\ NameAlone /\ last.login.email # ""
         /\ (\E u \in WithEmail(prev.users, last.login.email) :
                prev.users[u].password_hash = NoHash)
       => /\ last.found \in WithEmail(prev.users, last.login.email)
          /\ prev.users[last.found].password_hash = NoHash
    /\ NameAlone /\ FindUser(prev.users, last.login) # {}
         /\ (\A u \in FindUser(prev.users, last.login) :
                prev.users[u].password_hash = NoHash)
       => last.found \in FindUser(prev.users, last.login)

(* The email of a protected account alone was refused, while a login by    *)
(* the same email with the password would have succeeded.                  *)
C30_Witness ==
    /\ NameAlone
    /\ last.login.email # ""
    /\ last.login.username = ""
    /\ \E u \in WithEmail(prev.users, last.login.email) :
          prev.users[u].password_hash = HashPassword("secret")
    /\ last.found = NoUser
    /\ last.status = 401

(* C30 as stated: besides the above, every account without a password     *)
(* hash is returned for its username alone.                                *)
C30_ReturnedForUsernameAlone ==
    /\ ProtectedNeedsProof
    /\ NameAlone /\ last.login.email = "" /\ last.login.username # ""
         /\ (\E u \in DOMAIN prev.users :
                /\ prev.users[u].username = last.login.username
                /\ prev.users[u].password_hash = NoHash)
       => /\ last.found # NoUser
          /\ prev.users[last.found].username = last.login.username
          /\ prev.users[last.found].password_hash = NoHash

====
